---- MODULE Spec2Model ----
(***************************************************************************)
(* Model of tlab_google: the credential store (new_credentials,            *)
(* load_credentials, Credentials.save, Credentials.refresh) and the Gmail  *)
(* client (GmailAPI.list_message, get_message, send_message and            *)
(* get_signature).                                                         *)
(*                                                                         *)
(* Python values are modelled as follows.                                  *)
(*   - "x | None": a sequence of length at most one, <<>> for None and     *)
(*     <<x>> for the value x;                                              *)
(*   - list: a sequence; dict: a function whose DOMAIN is its key set;     *)
(*   - file content and JSON text: a sequence of one-character strings;    *)
(*   - an object built by a collaborator: a record with an "id" field      *)
(*     that stands for the object's identity.                              *)
(* Every call an operation makes to a collaborator is appended to the      *)
(* calling thread's log "calls", with its arguments and what it returned.  *)
(* "built" counts the clients discovery.build has constructed; the n-th     *)
(* client is the object n.  "config" is the dict the latest                *)
(* get_default_config() call returned, as its caller left it.              *)
(***************************************************************************)
EXTENDS Integers, Sequences, FiniteSets, TLC

VARIABLES pc, op, calls, result, held, file, fd, api, built, config

vars == <<pc, op, calls, result, held, file, fd, api, built, config>>

\* ------------------------------------------------------------------ bounds

\* Access tokens a token object can go through (refresh issues the next one).
MaxAccess == 3
\* Send-as aliases in one sendAs.list response.
MaxAliases == 2
\* Messages in one messages.list response.
MaxMsgs == 2
\* Bytes in the serialization of a message to send.
MaxBytes == 3
\* Clients discovery.build constructs in one run.
MaxBuilds == 2

\* ------------------------------------------------------------ Python values

None == <<>>

Some(x) == <<x>>

\* bool(x) of a "str | None": None and "" are falsy.
TruthyStr(o) == o # None /\ o[1] # ""

\* bool(x) of a "list | None": None and [] are falsy.
TruthyList(o) == o # None /\ o[1] # <<>>

\* Sequences over S of length at most n.
SeqUpTo(S, n) == UNION {[1..k -> S] : k \in 0..n}

\* ------------------------------------------------------------------ threads

\* The sequential caller.
Main == 1

Threads == {1, 2}

Call(fn, args, ret) == [fn |-> fn, args |-> args, ret |-> ret]

NoResult == [kind |-> "none", type |-> "", value |-> <<>>]

Return(type, value) == [kind |-> "return", type |-> type, value |-> value]

Raise(type, value) == [kind |-> "raise", type |-> type, value |-> value]

CollaboratorErrorWrapped(fn) == Raise("ValueError", fn)

\* A failure raised by a collaborator; it names the call that raised.
CollaboratorError(fn) == Raise("CollaboratorError", fn)

NoOp == [name |-> "", args |-> <<>>]

\* ------------------------------------------------------- credentials: tokens

Scopes == {<<>>, <<"https://www.googleapis.com/auth/gmail.send">>}

Paths == {"credentials.json", "other.json"}

\* google.oauth2.credentials.Credentials as this code sees it.
Token(id, valid, refresh_token, access) ==
    [id |-> id, valid |-> valid, refresh_token |-> refresh_token, access |-> access]

RefreshTokens == {None, Some(""), Some("refresh_token")}

\* What from_authorized_user_file can return.
FileTokens ==
    {Token("file", v, r, a) : v \in BOOLEAN, r \in RefreshTokens, a \in 1..(MaxAccess - 1)}

\* What a grant method of the consent flow can return.
FlowTokens(method) ==
    {Token(method, TRUE, r, 1) : r \in {None, Some("refresh_token")}}

\* token.to_json(): the text grows with the access token, so that two tokens
\* serialize to texts of different lengths.
ToJson(tok) == <<"{">> \o [i \in 1..tok.access |-> "t"] \o <<"}">>

\* token.refresh(request) when it succeeds: a new access token, valid again.
Refreshed(tok) == [tok EXCEPT !.valid = TRUE, !.access = @ + 1]

\* ------------------------------------------------------------- the file system

Absent == <<>>

\* Content a file may hold before the program touches it.
Garbage == <<"x", "x", "x", "x", "x", "x", "x">>

\* write(2) of data at offset 0 of a file holding content: the bytes under
\* the data are replaced and the bytes beyond it stay.
WriteAt0(content, data) ==
    IF Len(data) >= Len(content) THEN data
    ELSE data \o SubSeq(content, Len(data) + 1, Len(content))

NoFd == [open |-> FALSE, path |-> "", buf |-> <<>>]

\* ------------------------------------------------------------ new_credentials

DefaultClientId == "629905107772-2rq0b441g8k6v428ul0hvhlp0p8pq09a.apps.googleusercontent.com"

DefaultClientSecret == "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"

get_default_config ==
    [installed |->
        [client_id |-> DefaultClientId,
         project_id |-> "tlab-346715",
         auth_uri |-> "https://accounts.google.com/o/oauth2/auth",
         token_uri |-> "https://oauth2.googleapis.com/token",
         auth_provider_x509_cert_url |-> "https://www.googleapis.com/oauth2/v1/certs",
         client_secret |-> DefaultClientSecret,
         redirect_uris |-> <<"http://localhost">>]]

ConfigKeys == DOMAIN get_default_config.installed

ClientConfigAlwaysOverride(client_id, client_secret) ==
    [get_default_config EXCEPT
        !.installed.client_id = IF client_id # None THEN client_id[1] ELSE @,
        !.installed.client_secret = IF client_secret # None THEN client_secret[1] ELSE @]

SameConfig(previous) == previous

\* What a get_default_config() call returns when "previous" is the dict the
\* call before it returned, as its caller left it: a dict built anew from
\* the literal.
NewConfig(previous) == get_default_config

\* The client configuration new_credentials hands to the consent flow.
ClientConfig(client_id, client_secret) ==
    LET c0 == NewConfig(config)
        c1 == IF TruthyStr(client_id)
              THEN [c0 EXCEPT !.installed.client_id = client_id[1]] ELSE c0
        c2 == IF TruthyStr(client_secret)
              THEN [c1 EXCEPT !.installed.client_secret = client_secret[1]] ELSE c1
    IN c2

GrantMethodSwapped(run_local_server) ==
    IF run_local_server THEN "run_console" ELSE "run_local_server"

\* The grant method new_credentials runs.
GrantMethod(run_local_server) ==
    IF run_local_server THEN "run_local_server" ELSE "run_console"

ClientIds == {None, Some(""), Some("client_id_1")}

ClientSecrets == {None, Some(""), Some("client_secret_1")}

NewCredentials(t, scopes, client_id, client_secret, run_local_server) ==
    LET client_config == ClientConfig(client_id, client_secret)
        method == GrantMethod(run_local_server)
        ctor(ok) == Call("from_client_config", <<client_config, scopes>>,
                         IF ok THEN Some("flow") ELSE None)
    IN /\ pc[t] = "idle"
       /\ op' = [op EXCEPT ![t] =
                    [name |-> "new_credentials",
                     args |-> <<scopes, client_id, client_secret, run_local_server>>,
                     before |-> config]]
       /\ config' = client_config
       /\ \/ \* from_client_config raises
             /\ calls' = [calls EXCEPT ![t] = <<ctor(FALSE)>>]
             /\ result' = [result EXCEPT ![t] = CollaboratorError("from_client_config")]
             /\ UNCHANGED held
          \/ \* the grant method raises
             /\ calls' = [calls EXCEPT ![t] = <<ctor(TRUE), Call(method, <<>>, None)>>]
             /\ result' = [result EXCEPT ![t] = CollaboratorError(method)]
             /\ UNCHANGED held
          \/ \E creds \in FlowTokens(method) :
                /\ calls' = [calls EXCEPT ![t] =
                                <<ctor(TRUE), Call(method, <<>>, Some(creds))>>]
                /\ result' = [result EXCEPT ![t] = Return("Credentials", creds)]
                /\ held' = [held EXCEPT ![t] = Some(creds)]
       /\ pc' = [pc EXCEPT ![t] = "done"]
       /\ UNCHANGED <<file, fd, api, built>>

\* ----------------------------------------------------------- load_credentials

InvalidCredentialsMessage == "The credentials is not valid and has no refresh token"

LoadStepAlwaysRefresh(creds) ==
    IF TruthyStr(creds.refresh_token) THEN "refresh"
    ELSE IF creds.valid THEN "return" ELSE "raise"

LoadStepRefreshUnrefreshable(creds) ==
    IF creds.valid THEN "return" ELSE "refresh"

LoadStepSkipRefresh(creds) ==
    IF ~creds.valid /\ ~TruthyStr(creds.refresh_token) THEN "raise" ELSE "return"

\* What load_credentials does with the token it read.
LoadStep(creds) ==
    IF ~creds.valid
    THEN IF TruthyStr(creds.refresh_token) THEN "refresh" ELSE "raise"
    ELSE "return"

LoadCredentials(t, filepath, scopes) ==
    LET read(ret) == Call("from_authorized_user_file", <<filepath, scopes>>, ret)
        request == Call("requests.Request", <<>>, Some(2))
        refresh(creds, ok) == Call("refresh", <<creds.id, 2>>, ok)
    IN /\ pc[t] = "idle"
       /\ op' = [op EXCEPT ![t] =
                    [name |-> "load_credentials", args |-> <<filepath, scopes>>]]
       /\ \/ \* from_authorized_user_file raises
             /\ calls' = [calls EXCEPT ![t] = <<read(None)>>]
             /\ result' = [result EXCEPT ![t] =
                              CollaboratorError("from_authorized_user_file")]
             /\ UNCHANGED held
          \/ \E creds \in FileTokens :
                \/ /\ LoadStep(creds) = "return"
                   /\ calls' = [calls EXCEPT ![t] = <<read(Some(creds))>>]
                   /\ result' = [result EXCEPT ![t] = Return("Credentials", creds)]
                   /\ held' = [held EXCEPT ![t] = Some(creds)]
                \/ /\ LoadStep(creds) = "refresh"
                   /\ calls' = [calls EXCEPT ![t] =
                                   <<read(Some(creds)), request, refresh(creds, TRUE)>>]
                   /\ result' = [result EXCEPT ![t] =
                                    Return("Credentials", Refreshed(creds))]
                   /\ held' = [held EXCEPT ![t] = Some(Refreshed(creds))]
                \/ \* refresh raises
                   /\ LoadStep(creds) = "refresh"
                   /\ calls' = [calls EXCEPT ![t] =
                                   <<read(Some(creds)), request, refresh(creds, FALSE)>>]
                   /\ result' = [result EXCEPT ![t] = CollaboratorError("refresh")]
                   /\ UNCHANGED held
                \/ /\ LoadStep(creds) = "raise"
                   /\ calls' = [calls EXCEPT ![t] = <<read(Some(creds))>>]
                   /\ result' = [result EXCEPT ![t] =
                                    Raise("ValueError", InvalidCredentialsMessage)]
                   /\ UNCHANGED held
       /\ pc' = [pc EXCEPT ![t] = "done"]
       /\ UNCHANGED <<file, fd, api, built, config>>

\* ------------------------------------------------------- Credentials.refresh

CredentialsRefresh(t) ==
    /\ pc[t] = "idle"
    /\ held[t] # None
    /\ held[t][1].access < MaxAccess
    /\ op' = [op EXCEPT ![t] = [name |-> "refresh", args |-> <<>>]]
    /\ LET creds == held[t][1]
           request == Call("requests.Request", <<>>, Some(1))
       IN \/ /\ calls' = [calls EXCEPT ![t] =
                             <<request, Call("refresh", <<creds.id, 1>>, Some(TRUE))>>]
             /\ held' = [held EXCEPT ![t] = Some(Refreshed(creds))]
             /\ result' = [result EXCEPT ![t] = Return("None", <<>>)]
          \/ \* refresh raises
             /\ calls' = [calls EXCEPT ![t] =
                             <<request, Call("refresh", <<creds.id, 1>>, None)>>]
             /\ result' = [result EXCEPT ![t] = CollaboratorError("refresh")]
             /\ UNCHANGED held
    /\ pc' = [pc EXCEPT ![t] = "done"]
    /\ UNCHANGED <<file, fd, api, built, config>>

\* ---------------------------------------------------------- Credentials.save

\* open(filepath, "w"): the file is created, or truncated to nothing.
OpenForWriteKeep(content) == IF content = Absent THEN Some(<<>>) ELSE content

OpenForWrite(content) == Some(<<>>)

\* f.write(text) on a file object: the text goes to the object's buffer.
BufferedWrite(buf, text) == buf \o text

FlushWhole(content, buf) == Some(buf)

\* Leaving the with block: the buffer is written at the file object's
\* offset, which is 0 since the file was opened, and the file is closed.
Flush(content, buf) == Some(WriteAt0(content[1], buf))

\* save, up to open(filepath, "w").  The call record keeps what the file held
\* when save was called.
SaveOpen(t, filepath) ==
    /\ pc[t] = "idle"
    /\ held[t] # None
    /\ op' = [op EXCEPT ![t] =
                 [name |-> "save", args |-> <<filepath>>, before |-> file[filepath]]]
    /\ \/ /\ file' = [file EXCEPT ![filepath] = OpenForWrite(@)]
          /\ fd' = [fd EXCEPT ![t] = [open |-> TRUE, path |-> filepath, buf |-> <<>>]]
          /\ calls' = [calls EXCEPT ![t] = <<Call("open", <<filepath, "w">>, Some(t))>>]
          /\ pc' = [pc EXCEPT ![t] = "save_opened"]
          /\ UNCHANGED result
       \/ \* open raises
          /\ calls' = [calls EXCEPT ![t] = <<Call("open", <<filepath, "w">>, None)>>]
          /\ result' = [result EXCEPT ![t] = CollaboratorError("open")]
          /\ pc' = [pc EXCEPT ![t] = "done"]
          /\ UNCHANGED <<file, fd, api, built, config>>
    /\ UNCHANGED <<held, api, built, config>>

\* save: f.write(self._credentials.to_json()).
SaveWrite(t) ==
    /\ pc[t] = "save_opened"
    /\ LET text == ToJson(held[t][1])
       IN \/ /\ calls' = [calls EXCEPT ![t] =
                             @ \o <<Call("to_json", <<held[t][1].id>>, Some(text)),
                                    Call("write", <<t, text>>, Some(Len(text)))>>]
             /\ fd' = [fd EXCEPT ![t].buf = BufferedWrite(@, text)]
             /\ pc' = [pc EXCEPT ![t] = "save_written"]
             /\ UNCHANGED result
          \/ \* to_json raises: the with block closes the file, nothing buffered
             /\ calls' = [calls EXCEPT ![t] =
                             @ \o <<Call("to_json", <<held[t][1].id>>, None)>>]
             /\ fd' = [fd EXCEPT ![t] = NoFd]
             /\ result' = [result EXCEPT ![t] = CollaboratorError("to_json")]
             /\ pc' = [pc EXCEPT ![t] = "done"]
    /\ UNCHANGED <<op, held, file, api, built, config>>

\* save: the end of the with block.
SaveClose(t) ==
    /\ pc[t] = "save_written"
    /\ file' = [file EXCEPT ![fd[t].path] = Flush(@, fd[t].buf)]
    /\ fd' = [fd EXCEPT ![t] = NoFd]
    /\ calls' = [calls EXCEPT ![t] = @ \o <<Call("close", <<t>>, Some(TRUE))>>]
    /\ result' = [result EXCEPT ![t] = Return("None", <<>>)]
    /\ pc' = [pc EXCEPT ![t] = "done"]
    /\ UNCHANGED <<op, held, api, built, config>>

\* -------------------------------------------------------------------- GmailAPI

\* The token of the Credentials a GmailAPI is constructed with.
ApiToken == Token("api", TRUE, Some("refresh_token"), 1)

service_name == "gmail"

\* GmailAPI(credentials, version, user_id) after __post_init__; version_arg
\* keeps the version the constructor was given.
GmailAPI(credentials, version, user_id) ==
    [credentials |-> credentials,
     version |-> IF version # "" THEN version ELSE "v1",
     user_id |-> user_id,
     version_arg |-> version]

\* The instances a caller constructs: default, a version, a user id.
GmailAPIs ==
    {GmailAPI(Some(ApiToken), "", "me"),
     GmailAPI(Some(ApiToken), "v2", "me"),
     GmailAPI(Some(ApiToken), "", "foo")}

\* utils.build_service(api): the call to discovery.build.
build_service(a, ret) ==
    Call("build",
         [serviceName |-> service_name, version |-> a.version,
          credentials |-> a.credentials[1].id],
         ret)

\* The client discovery.build constructs when n were constructed before.
FreshService(n) == n + 1

ServiceCached(n) == 1

\* self._service: the client an operation makes its remote call on, the one
\* build_service has just returned to it.
ServiceOf(n) == FreshService(n)

\* A call of a method of a client.
CallOn(service, fn, args, ret) == [fn |-> fn, args |-> args, ret |-> ret, on |-> service]

EmptyDict == [k \in {} |-> <<>>]

\* The dict with key k bound to o[1] when o is given, the empty dict otherwise.
Field(k, o) == IF o = None THEN EmptyDict ELSE k :> o[1]

\* dict.get(key, default)
Get(d, key, default) == IF key \in DOMAIN d THEN d[key] ELSE default

\* ------------------------------------------------------- GmailAPI.list_message

Queries == {"", "subject:(fake)"}

MaxResults == {0, 100}

PageTokens == {None, Some(""), Some("page_token")}

LabelIds == {None, Some(<<>>), Some(<<"label">>)}

Messages ==
    {[id |-> "00000000", threadId |-> "00000000"], [id |-> "01000000"]}

NextPageTokens == {None, Some(""), Some("page_token_1")}

ResultSizeEstimates == {None, Some(0), Some(100)}

\* What messages.list(...).execute() can return.
ListResponse(messages, nextPageToken, resultSizeEstimate) ==
    Field("messages", messages) @@ Field("nextPageToken", nextPageToken)
        @@ Field("resultSizeEstimate", resultSizeEstimate)

ListRequestFirstPage(a, query, max_results, page_token, label_ids, include_spam_trash) ==
    [userId |-> a.user_id,
     q |-> query,
     maxResults |-> max_results,
     pageToken |-> "",
     labelIds |-> IF TruthyList(label_ids) THEN label_ids[1] ELSE <<>>,
     includeSpamTrash |-> include_spam_trash]

\* The keyword arguments list_message gives to messages().list.
ListRequest(a, query, max_results, page_token, label_ids, include_spam_trash) ==
    [userId |-> a.user_id,
     q |-> query,
     maxResults |-> max_results,
     pageToken |-> IF TruthyStr(page_token) THEN page_token[1] ELSE "",
     labelIds |-> IF TruthyList(label_ids) THEN label_ids[1] ELSE <<>>,
     includeSpamTrash |-> include_spam_trash]

\* {str(key): message[key] for key in message}: the keys of a JSON object
\* are strings, and str of a string is that string.
CopyMessage(message) == [key \in DOMAIN message |-> message[key]]

\* The tuple list_message returns for a response.  nextPageToken is a JSON
\* string and resultSizeEstimate a JSON integer: str and int leave them as
\* they are.
ListResult(response) ==
    LET found == Get(response, "messages", <<>>)
    IN <<[i \in 1..Len(found) |-> CopyMessage(found[i])],
         Get(response, "nextPageToken", ""),
         Get(response, "resultSizeEstimate", 0)>>

ListMessage(t, query, max_results, page_token, label_ids, include_spam_trash) ==
    LET request == ListRequest(api, query, max_results, page_token, label_ids,
                               include_spam_trash)
        list == CallOn(ServiceOf(built), "users.messages.list", request, Some("request"))
    IN /\ pc[t] = "idle"
       /\ built < MaxBuilds
       /\ op' = [op EXCEPT ![t] =
                    [name |-> "list_message",
                     args |-> <<query, max_results, page_token, label_ids,
                                include_spam_trash>>]]
       /\ \/ \* build raises
             /\ calls' = [calls EXCEPT ![t] = <<build_service(api, None)>>]
             /\ result' = [result EXCEPT ![t] = CollaboratorError("build")]
             /\ built' = built
          \/ \* execute raises
             /\ calls' = [calls EXCEPT ![t] =
                             <<build_service(api, Some(FreshService(built))), list,
                               Call("execute", <<>>, None)>>]
             /\ result' = [result EXCEPT ![t] = CollaboratorError("execute")]
             /\ built' = built + 1
          \/ \E messages \in {None} \cup {Some(m) : m \in SeqUpTo(Messages, MaxMsgs)},
                nextPageToken \in NextPageTokens,
                resultSizeEstimate \in ResultSizeEstimates :
                LET response == ListResponse(messages, nextPageToken, resultSizeEstimate)
                IN /\ calls' = [calls EXCEPT ![t] =
                                   <<build_service(api, Some(FreshService(built))), list,
                                     Call("execute", <<>>, Some(response))>>]
                   /\ result' = [result EXCEPT ![t] =
                                    Return("tuple", ListResult(response))]
                   /\ built' = built + 1
       /\ pc' = [pc EXCEPT ![t] = "done"]
       /\ UNCHANGED <<held, file, fd, api, config>>

\* ------------------------------------------------------ GmailAPI.get_signature

Emails == {"default@example.com", "foo0@example.com"}

Signatures == {"default user", "foo0 bar"}

\* A send-as alias of a sendAs.list response; signature and isDefault may be
\* missing from it.
SendAs ==
    {[sendAsEmail |-> e] : e \in Emails}
    \cup {[sendAsEmail |-> e, signature |-> s] : e \in Emails, s \in Signatures}
    \cup {[sendAsEmail |-> e, isDefault |-> d] : e \in Emails, d \in BOOLEAN}
    \cup {[sendAsEmail |-> e, signature |-> s, isDefault |-> d] :
             e \in Emails, s \in Signatures, d \in BOOLEAN}

Addresses == {None} \cup {Some(e) : e \in Emails} \cup {Some("unexist@example.com")}

\* d[key] = value on an insertion-ordered dict, kept as its sequence of
\* <<key, value>> items: a key already there keeps its place and takes the
\* value, a new key goes last.
RECURSIVE DictSet(_, _, _)
DictSet(items, key, value) ==
    IF items = <<>> THEN <<<<key, value>>>>
    ELSE IF items[1][1] = key THEN <<<<key, value>>>> \o Tail(items)
    ELSE <<items[1]>> \o DictSet(Tail(items), key, value)

\* {sendas["sendAsEmail"]: sendas for sendas in sendas_list}
RECURSIVE AddrToSendas(_)
AddrToSendas(sendas_list) ==
    IF sendas_list = <<>> THEN <<>>
    ELSE LET last == sendas_list[Len(sendas_list)]
         IN DictSet(AddrToSendas(SubSeq(sendas_list, 1, Len(sendas_list) - 1)),
                    last.sendAsEmail, last)

Keys(items) == {items[i][1] : i \in DOMAIN items}

Values(items) == [i \in DOMAIN items |-> items[i][2]]

Lookup(items, key) == CHOOSE i \in DOMAIN items : items[i][1] = key

LookupValue(items, key) == items[Lookup(items, key)][2]

CountsAsDefault(sendas) == Get(sendas, "isDefault", TRUE)

SignatureNotFoundMessage(address) == <<"A signature for ", address, " not found">>

SelectSendAsAmongDefaults(sendas_list, address) ==
    LET addr_to_sendas == AddrToSendas(sendas_list)
        defaults == SelectSeq(Values(addr_to_sendas), CountsAsDefault)
    IN IF defaults = <<>>
       THEN Raise("IndexError", "pop from empty list")
       ELSE IF address = None
       THEN Return("sendas", defaults[Len(defaults)])
       ELSE IF \A i \in DOMAIN defaults : defaults[i].sendAsEmail # address[1]
       THEN Raise("ValueError", SignatureNotFoundMessage(address[1]))
       ELSE Return("sendas", LookupValue(addr_to_sendas, address[1]))

SelectSendAsDefaultOnMiss(sendas_list, address) ==
    LET addr_to_sendas == AddrToSendas(sendas_list)
        defaults == SelectSeq(Values(addr_to_sendas), CountsAsDefault)
        wanted == IF address = None \/ address[1] \notin Keys(addr_to_sendas)
                  THEN <<>> ELSE <<LookupValue(addr_to_sendas, address[1])>>
    IN IF wanted # <<>> THEN Return("sendas", wanted[1])
       ELSE IF defaults = <<>>
            THEN Raise("IndexError", "pop from empty list")
            ELSE Return("sendas", defaults[Len(defaults)])

SelectSendAsNotFoundOnEmpty(sendas_list, address) ==
    LET addr_to_sendas == AddrToSendas(sendas_list)
        defaults == SelectSeq(Values(addr_to_sendas), CountsAsDefault)
    IN IF address = None
       THEN IF defaults = <<>>
            THEN Raise("ValueError", SignatureNotFoundMessage("None"))
            ELSE Return("sendas", defaults[Len(defaults)])
       ELSE IF address[1] \notin Keys(addr_to_sendas)
            THEN Raise("ValueError", SignatureNotFoundMessage(address[1]))
            ELSE Return("sendas", LookupValue(addr_to_sendas, address[1]))

\* The alias get_signature selects, or the error it raises.
SelectSendAs(sendas_list, address) ==
    LET addr_to_sendas == AddrToSendas(sendas_list)
        defaults == SelectSeq(Values(addr_to_sendas), CountsAsDefault)
    IN IF address = None
       THEN IF defaults = <<>>
            THEN Raise("IndexError", "pop from empty list")
            ELSE Return("sendas", defaults[Len(defaults)])
       ELSE IF address[1] \notin Keys(addr_to_sendas)
            THEN Raise("ValueError", SignatureNotFoundMessage(address[1]))
            ELSE Return("sendas", LookupValue(addr_to_sendas, address[1]))

\* str(sendas.get("signature", "")): a signature is a JSON string.
SignatureOf(sendas) == Get(sendas, "signature", "")

GetSignature(t, address) ==
    LET list == CallOn(ServiceOf(built), "users.settings.sendAs.list", [userId |-> api.user_id],
                     Some("request"))
    IN /\ pc[t] = "idle"
       /\ built < MaxBuilds
       /\ op' = [op EXCEPT ![t] = [name |-> "get_signature", args |-> <<address>>]]
       /\ \/ \* build raises
             /\ calls' = [calls EXCEPT ![t] = <<build_service(api, None)>>]
             /\ result' = [result EXCEPT ![t] = CollaboratorError("build")]
             /\ built' = built
          \/ \* execute raises
             /\ calls' = [calls EXCEPT ![t] =
                             <<build_service(api, Some(FreshService(built))), list,
                               Call("execute", <<>>, None)>>]
             /\ result' = [result EXCEPT ![t] = CollaboratorError("execute")]
             /\ built' = built + 1
          \/ \E sendAs \in {None} \cup {Some(l) : l \in SeqUpTo(SendAs, MaxAliases)} :
                LET response == Field("sendAs", sendAs)
                    selected == SelectSendAs(Get(response, "sendAs", <<>>), address)
                IN /\ calls' = [calls EXCEPT ![t] =
                                   <<build_service(api, Some(FreshService(built))), list,
                                     Call("execute", <<>>, Some(response))>>]
                   /\ result' = [result EXCEPT ![t] =
                                    IF selected.kind = "raise" THEN selected
                                    ELSE Return("str", SignatureOf(selected.value))]
                   /\ built' = built + 1
       /\ pc' = [pc EXCEPT ![t] = "done"]
       /\ UNCHANGED <<held, file, fd, api, config>>

\* -------------------------------------------------------- GmailAPI.get_message

MessageIds == {"foo", "bar"}

\* The format argument: None stands for a call that gives none.
Formats == {None, Some("minimal"), Some("full"), Some("raw"), Some("metadata")}

\* What messages.get(...).execute() can return.
GetResponses ==
    Messages
    \cup {[id |-> "fake id", threadId |-> "fake threadId", labelIds |-> <<>>,
           snippet |-> "fake snippet", sizeEstimate |-> 4096]}

\* The format parameter's default.
FormatOrDefault(format) == IF format = None THEN "full" ELSE format[1]

GetMessageResultWithoutThread(response) ==
    [key \in DOMAIN response \ {"threadId"} |-> response[key]]

\* {str(key): result[key] for key in result}
GetMessageResult(response) == CopyMessage(response)

GetMessage(t, id, format) ==
    LET get == CallOn(ServiceOf(built), "users.messages.get",
                    [userId |-> api.user_id, id |-> id,
                     format |-> FormatOrDefault(format)],
                    Some("request"))
    IN /\ pc[t] = "idle"
       /\ built < MaxBuilds
       /\ op' = [op EXCEPT ![t] = [name |-> "get_message", args |-> <<id, format>>]]
       /\ \/ \* build raises
             /\ calls' = [calls EXCEPT ![t] = <<build_service(api, None)>>]
             /\ result' = [result EXCEPT ![t] = CollaboratorError("build")]
             /\ built' = built
          \/ \* execute raises
             /\ calls' = [calls EXCEPT ![t] =
                             <<build_service(api, Some(FreshService(built))), get,
                               Call("execute", <<>>, None)>>]
             /\ result' = [result EXCEPT ![t] = CollaboratorError("execute")]
             /\ built' = built + 1
          \/ \E response \in GetResponses :
                /\ calls' = [calls EXCEPT ![t] =
                                <<build_service(api, Some(FreshService(built))), get,
                                  Call("execute", <<>>, Some(response))>>]
                /\ result' = [result EXCEPT ![t] =
                                 Return("dict", GetMessageResult(response))]
                /\ built' = built + 1
       /\ pc' = [pc EXCEPT ![t] = "done"]
       /\ UNCHANGED <<held, file, fd, api, config>>

\* ------------------------------------------------------- GmailAPI.send_message

\* Byte values message.as_bytes() is made of here; 251 and 255 reach the two
\* characters in which the URL-safe alphabet differs from the standard one.
Bytes == {0, 77, 251, 255}

\* A message to send, as what its as_bytes() gives.
MimeMessages == {[bytes |-> b] : b \in SeqUpTo(Bytes, MaxBytes)}

Base64Prefix ==
    <<"A", "B", "C", "D", "E", "F", "G", "H", "I", "J", "K", "L", "M",
      "N", "O", "P", "Q", "R", "S", "T", "U", "V", "W", "X", "Y", "Z",
      "a", "b", "c", "d", "e", "f", "g", "h", "i", "j", "k", "l", "m",
      "n", "o", "p", "q", "r", "s", "t", "u", "v", "w", "x", "y", "z",
      "0", "1", "2", "3", "4", "5", "6", "7", "8", "9">>

\* The alphabet of base64.b64encode.
StandardAlphabet == Base64Prefix \o <<"+", "/">>

\* The alphabet of base64.urlsafe_b64encode.
UrlSafeAlphabet == Base64Prefix \o <<"-", "_">>

\* base64 of bytes b over an alphabet: 3 bytes give 4 characters of 6 bits
\* each, and a last group of 1 or 2 bytes is padded with "=".
RECURSIVE B64Encode(_, _)
B64Encode(b, alphabet) ==
    LET c(i) == alphabet[i + 1]
    IN IF Len(b) = 0 THEN <<>>
       ELSE IF Len(b) = 1
       THEN <<c(b[1] \div 4), c((b[1] % 4) * 16), "=", "=">>
       ELSE IF Len(b) = 2
       THEN <<c(b[1] \div 4), c((b[1] % 4) * 16 + b[2] \div 16),
              c((b[2] % 16) * 4), "=">>
       ELSE <<c(b[1] \div 4), c((b[1] % 4) * 16 + b[2] \div 16),
              c((b[2] % 16) * 4 + b[3] \div 64), c(b[3] % 64)>>
            \o B64Encode(SubSeq(b, 4, Len(b)), alphabet)

RawBodyStandard(message) == B64Encode(message.bytes, StandardAlphabet)

\* base64.urlsafe_b64encode(message.as_bytes()).decode(): the encoded bytes
\* are ASCII, one character each.
RawBody(message) == B64Encode(message.bytes, UrlSafeAlphabet)

SendMessage(t, message) ==
    LET as_bytes(ret) == Call("as_bytes", <<>>, ret)
        send == CallOn(ServiceOf(built), "users.messages.send",
                     [userId |-> api.user_id, body |-> [raw |-> RawBody(message)]],
                     Some("request"))
    IN /\ pc[t] = "idle"
       /\ built < MaxBuilds
       /\ op' = [op EXCEPT ![t] = [name |-> "send_message", args |-> <<message>>]]
       /\ \/ \* as_bytes raises
             /\ calls' = [calls EXCEPT ![t] = <<as_bytes(None)>>]
             /\ result' = [result EXCEPT ![t] = CollaboratorError("as_bytes")]
             /\ built' = built
          \/ \* build raises
             /\ calls' = [calls EXCEPT ![t] =
                             <<as_bytes(Some(message.bytes)), build_service(api, None)>>]
             /\ result' = [result EXCEPT ![t] = CollaboratorError("build")]
             /\ built' = built
          \/ \* execute raises
             /\ calls' = [calls EXCEPT ![t] =
                             <<as_bytes(Some(message.bytes)),
                               build_service(api, Some(FreshService(built))), send,
                               Call("execute", <<>>, None)>>]
             /\ result' = [result EXCEPT ![t] = CollaboratorError("execute")]
             /\ built' = built + 1
          \/ \E response \in Messages :
                /\ calls' = [calls EXCEPT ![t] =
                                <<as_bytes(Some(message.bytes)),
                                  build_service(api, Some(FreshService(built))), send,
                                  Call("execute", <<>>, Some(response))>>]
                /\ result' = [result EXCEPT ![t] = Return("None", <<>>)]
                /\ built' = built + 1
       /\ pc' = [pc EXCEPT ![t] = "done"]
       /\ UNCHANGED <<held, file, fd, api, config>>

\* ------------------------------------------------------------------ the caller

\* The caller takes the result and goes on to its next call.
Proceed(t) ==
    /\ pc[t] = "done"
    /\ pc' = [pc EXCEPT ![t] = "idle"]
    /\ op' = [op EXCEPT ![t] = NoOp]
    /\ calls' = [calls EXCEPT ![t] = <<>>]
    /\ result' = [result EXCEPT ![t] = NoResult]
    /\ UNCHANGED <<held, file, fd, api, built, config>>

Init ==
    /\ pc = [t \in Threads |-> "idle"]
    /\ op = [t \in Threads |-> NoOp]
    /\ calls = [t \in Threads |-> <<>>]
    /\ result = [t \in Threads |-> NoResult]
    /\ held = [t \in Threads |-> None]
    /\ file \in [Paths -> {Absent, Some(Garbage)}]
    /\ fd = [t \in Threads |-> NoFd]
    /\ api = GmailAPI(Some(ApiToken), "", "me")
    /\ built = 0
    /\ config = get_default_config

\* The sequential program: one caller, one call at a time.
Next ==
    \/ \E scopes \in Scopes, client_id \in ClientIds, client_secret \in ClientSecrets,
          run_local_server \in BOOLEAN :
          NewCredentials(Main, scopes, client_id, client_secret, run_local_server)
    \/ \E filepath \in Paths, scopes \in Scopes : LoadCredentials(Main, filepath, scopes)
    \/ CredentialsRefresh(Main)
    \/ \E filepath \in Paths : SaveOpen(Main, filepath)
    \/ SaveWrite(Main)
    \/ SaveClose(Main)
    \/ Proceed(Main)

Spec == Init /\ [][Next]_vars

\* A caller of one GmailAPI instance.
InitGmail ==
    /\ pc = [t \in Threads |-> "idle"]
    /\ op = [t \in Threads |-> NoOp]
    /\ calls = [t \in Threads |-> <<>>]
    /\ result = [t \in Threads |-> NoResult]
    /\ held = [t \in Threads |-> None]
    /\ file = [p \in Paths |-> Absent]
    /\ fd = [t \in Threads |-> NoFd]
    /\ api \in GmailAPIs
    /\ built = 0
    /\ config = get_default_config

NextGmail ==
    \/ \E query \in Queries, max_results \in MaxResults, page_token \in PageTokens,
          label_ids \in LabelIds, include_spam_trash \in BOOLEAN :
          ListMessage(Main, query, max_results, page_token, label_ids,
                      include_spam_trash)
    \/ \E address \in Addresses : GetSignature(Main, address)
    \/ \E message \in MimeMessages : SendMessage(Main, message)
    \/ \E id \in MessageIds, format \in Formats : GetMessage(Main, id, format)
    \/ Proceed(Main)

SpecGmail == InitGmail /\ [][NextGmail]_vars

\* Tokens two callers hold when they save; they serialize to different texts.
HeldTokens == {tok \in FileTokens : tok.valid /\ tok.refresh_token = None}

\* Two threads, each holding a Credentials, that call save.
InitRace ==
    /\ pc = [t \in Threads |-> "idle"]
    /\ op = [t \in Threads |-> NoOp]
    /\ calls = [t \in Threads |-> <<>>]
    /\ result = [t \in Threads |-> NoResult]
    /\ held \in [Threads -> {Some(tok) : tok \in HeldTokens}]
    /\ file \in [Paths -> {Absent, Some(Garbage)}]
    /\ fd = [t \in Threads |-> NoFd]
    /\ api = GmailAPI(Some(ApiToken), "", "me")
    /\ built = 0
    /\ config = get_default_config

NextRace ==
    \E t \in Threads :
        \/ \E filepath \in Paths : SaveOpen(t, filepath)
        \/ SaveWrite(t)
        \/ SaveClose(t)
        \/ Proceed(t)

SpecRace == InitRace /\ [][NextRace]_vars

\* ================================================================ properties

\* The caller has the outcome of a call to the named operation.
Done(name) == pc[Main] = "done" /\ op[Main].name = name

\* Where in the caller's log the calls to fn are.
CallsTo(fn) == {i \in DOMAIN calls[Main] : calls[Main][i].fn = fn}

\* The token from_authorized_user_file returned to the running load_credentials.
Loaded == calls[Main][1].ret[1]

\* load_credentials got a token from the file.
LoadGotToken == Done("load_credentials") /\ calls[Main][1].ret # None

\* The only calls made were the read of the file with (filepath, scopes).
ReadOnce ==
    /\ Cardinality(CallsTo("from_authorized_user_file")) = 1
    /\ calls[Main][1].fn = "from_authorized_user_file"
    /\ calls[Main][1].args = op[Main].args

\* C1: load_credentials on a token with valid = false and no refresh token
\* raises the invalid-credentials error (the ValueError of load_credentials),
\* returns no Credentials and never calls refresh.
C1_UnrefreshableRaises ==
    (LoadGotToken /\ ~Loaded.valid /\ Loaded.refresh_token = None)
        => /\ result[Main] = Raise("ValueError", InvalidCredentialsMessage)
           /\ CallsTo("refresh") = {}
           /\ CallsTo("requests.Request") = {}
           /\ ReadOnce

C1_Witness ==
    /\ LoadGotToken /\ ~Loaded.valid /\ Loaded.refresh_token = None
    /\ result[Main].kind = "raise"

\* refresh was called exactly once, on the loaded token, with a request
\* constructed by this call of load_credentials, and a returned Credentials
\* wraps that token object.
RefreshedOnce ==
    /\ Cardinality(CallsTo("refresh")) = 1
    /\ Cardinality(CallsTo("requests.Request")) = 1
    /\ \A i \in CallsTo("refresh") :
          /\ calls[Main][i].args[1] = Loaded.id
          /\ calls[Main][i].args[2] \in CallsTo("requests.Request")
          /\ calls[Main][i].args[2] < i
          /\ calls[Main][calls[Main][i].args[2]].ret = Some(calls[Main][i].args[2])
    /\ result[Main].kind = "return" =>
          /\ result[Main].type = "Credentials"
          /\ result[Main].value.id = Loaded.id
          /\ held[Main] = Some(result[Main].value)
    /\ result[Main].kind = "raise" => result[Main] = CollaboratorError("refresh")

\* C2 as stated: load_credentials on a token with valid = false and a refresh
\* token present (not None) calls refresh exactly once and returns a
\* Credentials wrapping that token.
C2_RefreshWhenPresent ==
    (LoadGotToken /\ ~Loaded.valid /\ Loaded.refresh_token # None) => RefreshedOnce

\* C2, amended: load_credentials on a token with valid = false and a
\* non-empty refresh token calls refresh exactly once and returns a
\* Credentials wrapping that token; an empty refresh token counts as none:
\* the ValueError is raised and refresh is not called.
C2_RefreshWhenNonEmpty ==
    /\ (LoadGotToken /\ ~Loaded.valid /\ TruthyStr(Loaded.refresh_token))
          => RefreshedOnce
    /\ (LoadGotToken /\ ~Loaded.valid /\ Loaded.refresh_token = Some(""))
          => /\ result[Main] = Raise("ValueError", InvalidCredentialsMessage)
             /\ CallsTo("refresh") = {}

C2_Witness ==
    /\ LoadGotToken /\ ~Loaded.valid /\ TruthyStr(Loaded.refresh_token)
    /\ result[Main].kind = "return"
    /\ CallsTo("refresh") # {}

\* C3: load_credentials on a token with valid = true calls no refresh,
\* whether or not the token has a refresh token, reads the file exactly once
\* with (filepath, scopes) and returns a Credentials wrapping the token as
\* it was loaded.
C3_ValidUntouched ==
    (LoadGotToken /\ Loaded.valid)
        => /\ CallsTo("refresh") = {}
           /\ CallsTo("requests.Request") = {}
           /\ ReadOnce
           /\ Len(calls[Main]) = 1
           /\ result[Main] = Return("Credentials", Loaded)
           /\ held[Main] = Some(Loaded)

C3_Witness ==
    /\ LoadGotToken /\ Loaded.valid /\ TruthyStr(Loaded.refresh_token)
    /\ result[Main].kind = "return"

\* new_credentials called the consent-flow constructor exactly once, first,
\* with the scopes it was given.
FlowConstructedOnce ==
    /\ Cardinality(CallsTo("from_client_config")) = 1
    /\ calls[Main][1].fn = "from_client_config"
    /\ calls[Main][1].args[2] = op[Main].args[1]

\* The client configuration the consent-flow constructor received.
PassedConfig == calls[Main][1].args[1].installed

\* Every key but client_id and client_secret has its default value.
OtherKeysDefault ==
    /\ DOMAIN calls[Main][1].args[1] = {"installed"}
    /\ DOMAIN PassedConfig = ConfigKeys
    /\ \A k \in ConfigKeys \ {"client_id", "client_secret"} :
          PassedConfig[k] = get_default_config.installed[k]

\* C7 as stated: new_credentials calls the consent-flow constructor exactly
\* once with (client_config, scopes), client_config being the default with
\* client_id and client_secret replaced by the values supplied (not None).
C7_OverrideWhenSupplied ==
    Done("new_credentials")
        => /\ FlowConstructedOnce
           /\ OtherKeysDefault
           /\ PassedConfig.client_id =
                 IF op[Main].args[2] # None THEN op[Main].args[2][1]
                 ELSE DefaultClientId
           /\ PassedConfig.client_secret =
                 IF op[Main].args[3] # None THEN op[Main].args[3][1]
                 ELSE DefaultClientSecret

\* C7, amended: new_credentials calls the consent-flow constructor exactly
\* once with (client_config, scopes), client_config being the default with
\* client_id and client_secret replaced by the values supplied when these
\* are non-empty strings; an empty string, like None, leaves the default.
C7_OverrideWhenNonEmpty ==
    Done("new_credentials")
        => /\ FlowConstructedOnce
           /\ OtherKeysDefault
           /\ PassedConfig.client_id =
                 IF op[Main].args[2] \notin {None, Some("")} THEN op[Main].args[2][1]
                 ELSE DefaultClientId
           /\ PassedConfig.client_secret =
                 IF op[Main].args[3] \notin {None, Some("")} THEN op[Main].args[3][1]
                 ELSE DefaultClientSecret

C7_Witness ==
    /\ Done("new_credentials")
    /\ op[Main].args[2] = Some("client_id_1")
    /\ op[Main].args[3] = None
    /\ PassedConfig.client_id = "client_id_1"
    /\ result[Main].kind = "return"

\* C8: once the consent flow is constructed, new_credentials with
\* run_local_server = true calls run_local_server exactly once and
\* run_console never, with run_local_server = false run_console exactly once
\* and run_local_server never, and the Credentials returned wraps the token
\* that call returned.
C8_OneGrantMethod ==
    (Done("new_credentials") /\ calls[Main][1].ret # None)
        => LET ran == IF op[Main].args[4] THEN "run_local_server" ELSE "run_console"
               other == IF op[Main].args[4] THEN "run_console" ELSE "run_local_server"
           IN /\ Cardinality(CallsTo(ran)) = 1
              /\ CallsTo(other) = {}
              /\ Len(calls[Main]) = 2
              /\ result[Main].kind = "return" =>
                    \A i \in CallsTo(ran) :
                       /\ calls[Main][i].ret = Some(result[Main].value)
                       /\ result[Main].type = "Credentials"
                       /\ held[Main] = Some(result[Main].value)
              /\ result[Main].kind = "raise" =>
                    \A i \in CallsTo(ran) : calls[Main][i].ret = None

C8_Witness ==
    /\ Done("new_credentials")
    /\ ~op[Main].args[4]
    /\ result[Main].kind = "return"
    /\ CallsTo("run_console") # {}

\* The thread is inside save: the file is open.
Saving(t) == pc[t] \in {"save_opened", "save_written"}

\* C9: when save(filepath) has completed, the file at filepath holds exactly
\* the text to_json returned, which is the held token's serialization,
\* whatever the file held before; and no step of save changes the held token.
C9_SaveWritesJson ==
    /\ [](Done("save") /\ result[Main].kind = "return"
            => /\ Cardinality(CallsTo("to_json")) = 1
               /\ \A i \in CallsTo("to_json") :
                     /\ calls[Main][i].args = <<held[Main][1].id>>
                     /\ file[op[Main].args[1]] = calls[Main][i].ret
                     /\ calls[Main][i].ret = Some(ToJson(held[Main][1])))
    /\ [][(Saving(Main) \/ Saving(Main)') => held' = held]_vars

C9_Witness ==
    /\ Done("save") /\ result[Main].kind = "return"
    /\ op[Main].before = Some(Garbage)
    /\ file[op[Main].args[1]] = Some(ToJson(held[Main][1]))
    /\ Len(ToJson(held[Main][1])) < Len(Garbage)
    /\ held[Main][1].access > 1

\* ------------------------------------------------------- properties, GmailAPI

\* The response execute() returned to the running operation.
Response == calls[Main][3].ret[1]

\* The operation got a response.
GotResponse(name) ==
    Done(name) /\ Len(calls[Main]) = 3 /\ calls[Main][3].ret # None

\* One build, then one remote call of the named method for the instance's
\* user, executed once, and nothing after it.
OneRemoteCall(method) ==
    /\ Len(calls[Main]) = 3
    /\ calls[Main][1].fn = "build"
    /\ calls[Main][2].fn = method
    /\ calls[Main][2].args.userId = api.user_id
    /\ calls[Main][3].fn = "execute"

\* The aliases of the sendAs.list response, in the order it lists them.
Listed == Get(Response, "sendAs", <<>>)

\* The aliases of the response whose isDefault flag is true.
FlaggedDefault ==
    {i \in DOMAIN Listed : "isDefault" \in DOMAIN Listed[i] /\ Listed[i].isDefault}

\* The aliases of the response with the address asked for.
WithAddress == {i \in DOMAIN Listed : Listed[i].sendAsEmail = op[Main].args[1][1]}

Last(S) == CHOOSE i \in S : \A j \in S : j <= i

\* C4: get_signature() without an address returns the signature of the last
\* alias, in the response's order, whose isDefault flag is true, for every
\* alias list that has one: also when some alias has no isDefault field or
\* an address is listed more than once.
C4_LastFlaggedDefault ==
    (GotResponse("get_signature") /\ op[Main].args[1] = None /\ FlaggedDefault # {})
        => result[Main] = Return("str", Get(Listed[Last(FlaggedDefault)], "signature", ""))

\* C5: get_signature(address) with an address that no alias of the response
\* has raises the signature-not-found error (the ValueError of
\* get_signature), whose message names the address, and returns no signature.
C5_UnknownAddressRaises ==
    (GotResponse("get_signature") /\ op[Main].args[1] # None /\ WithAddress = {})
        => /\ result[Main].kind = "raise"
           /\ result[Main].type = "ValueError"
           /\ result[Main].value =
                 <<"A signature for ", op[Main].args[1][1], " not found">>

C5_Witness ==
    /\ GotResponse("get_signature") /\ op[Main].args[1] # None /\ WithAddress = {}
    /\ Listed # <<>>
    /\ \E i \in DOMAIN Listed : "isDefault" \in DOMAIN Listed[i] /\ Listed[i].isDefault
    /\ result[Main].kind = "raise"

\* C6: get_signature(address) with the address of an alias of the response
\* returns that alias's signature whatever its isDefault flag (of the last
\* alias listed with the address, when several have it), "" when the alias
\* has no signature field; once its client is built, get_signature makes
\* exactly one sendAs.list call, for the instance's user_id.
C6_SignatureOfAddress ==
    /\ Done("get_signature") /\ calls[Main][1].ret # None
          => OneRemoteCall("users.settings.sendAs.list")
    /\ (GotResponse("get_signature") /\ op[Main].args[1] # None /\ WithAddress # {})
          => /\ result[Main].kind = "return"
             /\ result[Main].type = "str"
             /\ result[Main].value =
                   IF "signature" \in DOMAIN Listed[Last(WithAddress)]
                   THEN Listed[Last(WithAddress)].signature ELSE ""

C6_Witness ==
    /\ GotResponse("get_signature") /\ op[Main].args[1] # None /\ WithAddress # {}
    /\ "isDefault" \in DOMAIN Listed[Last(WithAddress)]
    /\ ~Listed[Last(WithAddress)].isDefault
    /\ result[Main] = Return("str", "foo0 bar")

\* C10: list_message, once its client is built, makes exactly one
\* messages.list call, executed once,
\* and no further call even when the response has a nextPageToken; the call
\* gets pageToken "" for no page_token and labelIds [] for no label_ids, and
\* otherwise page_token, label_ids, query, max_results, include_spam_trash
\* and the instance's user_id as they are; the tuple returned is (messages,
\* nextPageToken, resultSizeEstimate) of the response, with [], "" and 0 for
\* the fields the response lacks.
C10_ListOnce ==
    /\ Done("list_message") /\ calls[Main][1].ret # None
          => /\ OneRemoteCall("users.messages.list")
             /\ calls[Main][2].args =
                   [userId |-> api.user_id,
                    q |-> op[Main].args[1],
                    maxResults |-> op[Main].args[2],
                    pageToken |-> IF op[Main].args[3] = None THEN ""
                                  ELSE op[Main].args[3][1],
                    labelIds |-> IF op[Main].args[4] = None THEN <<>>
                                 ELSE op[Main].args[4][1],
                    includeSpamTrash |-> op[Main].args[5]]
    /\ GotResponse("list_message")
          => /\ result[Main].kind = "return"
             /\ result[Main].value[1] =
                   IF "messages" \in DOMAIN Response THEN Response.messages ELSE <<>>
             /\ result[Main].value[2] =
                   IF "nextPageToken" \in DOMAIN Response
                   THEN Response.nextPageToken ELSE ""
             /\ result[Main].value[3] =
                   IF "resultSizeEstimate" \in DOMAIN Response
                   THEN Response.resultSizeEstimate ELSE 0

C10_Witness ==
    /\ GotResponse("list_message")
    /\ op[Main].args[3] = Some("page_token")
    /\ op[Main].args[4] = None
    /\ "nextPageToken" \in DOMAIN Response
    /\ Response.nextPageToken = "page_token_1"
    /\ "resultSizeEstimate" \notin DOMAIN Response
    /\ "messages" \in DOMAIN Response
    /\ Len(Response.messages) = 2
    /\ calls[Main][2].args.pageToken = "page_token"

\* The place of a character in the URL-safe alphabet, counted from 0.
UrlSafeIndex(ch) == (CHOOSE i \in DOMAIN UrlSafeAlphabet : UrlSafeAlphabet[i] = ch) - 1

\* Base64 text is made of groups of 4 characters of the URL-safe alphabet,
\* "=" only at the end of the last group.
IsUrlSafeBase64(text) ==
    /\ Len(text) % 4 = 0
    /\ \A i \in DOMAIN text :
          \/ \E j \in DOMAIN UrlSafeAlphabet : UrlSafeAlphabet[j] = text[i]
          \/ /\ text[i] = "="
             /\ i >= Len(text) - 1
             /\ i < Len(text) => text[i + 1] = "="

\* The bytes a base64url text stands for.
RECURSIVE UrlSafeDecode(_)
UrlSafeDecode(text) ==
    IF Len(text) = 0 THEN <<>>
    ELSE LET v(i) == UrlSafeIndex(text[i])
             first == v(1) * 4 + v(2) \div 16
             second == (v(2) % 16) * 16 + v(3) \div 4
             third == (v(3) % 4) * 64 + v(4)
         IN IF text[3] = "=" THEN <<first>>
            ELSE IF text[4] = "=" THEN <<first, second>>
            ELSE <<first, second, third>> \o UrlSafeDecode(SubSeq(text, 5, Len(text)))

\* C11: send_message, once the message is serialized and the client built,
\* makes exactly one messages.send call, for the instance's user_id and with
\* body {"raw": text}, text being the base64url (URL-safe alphabet, padded)
\* of the message's bytes, executes it exactly once and returns None.
C11_SendOnce ==
    (Done("send_message") /\ Len(calls[Main]) >= 2 /\ calls[Main][2].ret # None)
        => /\ Len(calls[Main]) = 4
           /\ calls[Main][1].fn = "as_bytes"
           /\ calls[Main][2].fn = "build"
           /\ calls[Main][3].fn = "users.messages.send"
           /\ calls[Main][4].fn = "execute"
           /\ DOMAIN calls[Main][3].args = {"userId", "body"}
           /\ calls[Main][3].args.userId = api.user_id
           /\ DOMAIN calls[Main][3].args.body = {"raw"}
           /\ IsUrlSafeBase64(calls[Main][3].args.body.raw)
           /\ Len(calls[Main][3].args.body.raw) = 4 * ((Len(op[Main].args[1].bytes) + 2) \div 3)
           /\ UrlSafeDecode(calls[Main][3].args.body.raw) = op[Main].args[1].bytes
           /\ calls[Main][4].ret # None => result[Main] = Return("None", <<>>)

C11_Witness ==
    /\ Done("send_message")
    /\ op[Main].args[1].bytes = <<251, 255>>
    /\ result[Main] = Return("None", <<>>)
    /\ calls[Main][3].args.body.raw = <<"-", "_", "8", "=">>

\* C12: get_message(id, format), once its client is built, makes exactly one
\* messages.get call with the instance's user_id, the id and the format
\* ("full" when none is given), and returns a mapping with the keys of the
\* response and the response's value for each.
C12_GetVerbatim ==
    /\ Done("get_message") /\ calls[Main][1].ret # None
          => /\ OneRemoteCall("users.messages.get")
             /\ calls[Main][2].args =
                   [userId |-> api.user_id,
                    id |-> op[Main].args[1],
                    format |-> IF op[Main].args[2] = None THEN "full"
                               ELSE op[Main].args[2][1]]
    /\ GotResponse("get_message")
          => /\ result[Main].kind = "return"
             /\ DOMAIN result[Main].value = DOMAIN Response
             /\ \A key \in DOMAIN Response : result[Main].value[key] = Response[key]

C12_Witness ==
    /\ GotResponse("get_message")
    /\ op[Main].args[2] = None
    /\ calls[Main][2].args.format = "full"
    /\ Cardinality(DOMAIN Response) = 5
    /\ result[Main].value.sizeEstimate = 4096

MailOperations == {"list_message", "get_message", "send_message", "get_signature"}

\* The remote methods of the mail operations.
RemoteMethods ==
    {"users.messages.list", "users.messages.get", "users.messages.send",
     "users.settings.sendAs.list"}

\* Where in the caller's log the calls of remote methods are.
RemoteCalls == {i \in DOMAIN calls[Main] : calls[Main][i].fn \in RemoteMethods}

\* C13: every mail operation that comes to need its client makes exactly one
\* build call, with the service name "gmail", the instance's version ("v1"
\* when the constructor was given none, the given one otherwise) and the
\* token of the Credentials the instance was constructed with; its remote
\* call is made on the client that call returned, the newest one built, so
\* never on a client of an earlier operation.
C13_FreshClientPerOperation ==
    (pc[Main] = "done" /\ op[Main].name \in MailOperations /\ CallsTo("build") # {})
        => /\ Cardinality(CallsTo("build")) = 1
           /\ \A i \in CallsTo("build") :
                 /\ calls[Main][i].args =
                       [serviceName |-> "gmail",
                        version |-> IF api.version_arg = "" THEN "v1"
                                    ELSE api.version_arg,
                        credentials |-> ApiToken.id]
                 /\ calls[Main][i].ret = None => RemoteCalls = {}
                 /\ calls[Main][i].ret # None =>
                       /\ Cardinality(RemoteCalls) = 1
                       /\ calls[Main][i].ret[1] = built
                       /\ \A j \in RemoteCalls :
                             j > i /\ calls[Main][j].on = calls[Main][i].ret[1]

C13_Witness ==
    /\ Done("get_message")
    /\ api.version_arg = "v2"
    /\ built = 2
    /\ \E j \in RemoteCalls : calls[Main][j].on = 2
    /\ result[Main].kind = "return"

\* The calls of the log that raised.
RaisedCalls == {i \in DOMAIN calls[Main] : calls[Main][i].ret = None}

\* C14: in each mail operation, when the client build or the remote call
\* raises, the operation ends by raising that very failure, neither a
\* ValueError nor any other error in its place, and makes no call after it:
\* the failed call is the last of the log, no build and no remote call is
\* made twice, and nothing is returned.
C14_FailurePropagates ==
    (pc[Main] = "done" /\ op[Main].name \in MailOperations)
        => /\ Cardinality(CallsTo("build")) <= 1
           /\ Cardinality(RemoteCalls) <= 1
           /\ Cardinality(CallsTo("execute")) <= 1
           /\ \A i \in RaisedCalls :
                 /\ i = Len(calls[Main])
                 /\ result[Main].kind = "raise"
                 /\ result[Main].type = "CollaboratorError"
                 /\ result[Main].value = calls[Main][i].fn
           /\ (RaisedCalls = {} /\ result[Main].kind = "raise")
                 => /\ op[Main].name = "get_signature"
                    /\ result[Main].type \in {"ValueError", "IndexError"}

C14_Witness ==
    /\ Done("send_message")
    /\ Len(calls[Main]) = 4
    /\ calls[Main][4].fn = "execute"
    /\ calls[Main][4].ret = None
    /\ result[Main] = Raise("CollaboratorError", "execute")

\* C15: two saves on one path are not serialized.  While one thread has the
\* file open, another thread's save can open (and so truncate) the same
\* file; and a save that flushes its text into a file in which another save
\* has meanwhile flushed a longer text replaces only the head of it, so that
\* the file then holds neither text.
C15_SavesRace ==
    /\ [](\A t \in Threads : \A u \in Threads \ {t} :
             (Saving(u) /\ pc[t] = "idle" /\ held[t] # None)
                => ENABLED SaveOpen(t, fd[u].path))
    /\ [][\A t \in Threads :
             (/\ pc[t] = "save_written"
              /\ pc'[t] = "done"
              /\ Len(file[fd[t].path][1]) > Len(fd[t].buf))
                => /\ file'[fd[t].path] # Some(ToJson(held[t][1]))
                   /\ file'[fd[t].path] # file[fd[t].path]
                   /\ Len(file'[fd[t].path][1]) = Len(file[fd[t].path][1])]_vars

C15_Witness ==
    /\ \A t \in Threads :
          /\ pc[t] = "done"
          /\ op[t].name = "save"
          /\ op[t].args = <<"credentials.json">>
          /\ result[t] = Return("None", <<>>)
    /\ ToJson(held[1][1]) # ToJson(held[2][1])
    /\ \A t \in Threads : file["credentials.json"] # Some(ToJson(held[t][1]))

\* The aliases of the response that count as default: flagged true, or
\* without an isDefault field.
CountedDefault == {i \in DOMAIN Listed : CountsAsDefault(Listed[i])}

\* C16: get_signature() without an address, on a response none of whose
\* aliases counts as default (an empty or absent sendAs list included),
\* returns no signature: it raises the IndexError of popping from an empty
\* list, not the ValueError get_signature raises for an unknown address.
C16_NoDefaultIndexError ==
    (GotResponse("get_signature") /\ op[Main].args[1] = None /\ CountedDefault = {})
        => /\ result[Main].kind = "raise"
           /\ result[Main].type = "IndexError"
           /\ result[Main].value = "pop from empty list"

C16_Witness ==
    /\ GotResponse("get_signature") /\ op[Main].args[1] = None
    /\ Response = EmptyDict
    /\ result[Main] = Raise("IndexError", "pop from empty list")

\* C17: whatever overrides the new_credentials calls before it were given
\* (op.before is the configuration the call before it passed on), a
\* new_credentials call passes the fixed default client_id when it is given
\* no client_id and the fixed default client_secret when it is given no
\* client_secret, and the default value of every other key.
C17_DefaultsUnchanged ==
    Done("new_credentials")
        => /\ calls[Main][1].fn = "from_client_config"
           /\ OtherKeysDefault
           /\ op[Main].args[2] = None => PassedConfig.client_id = DefaultClientId
           /\ op[Main].args[3] = None => PassedConfig.client_secret = DefaultClientSecret
           /\ config = calls[Main][1].args[1]

C17_Witness ==
    /\ Done("new_credentials")
    /\ op[Main].before.installed.client_id = "client_id_1"
    /\ op[Main].before.installed.client_secret = "client_secret_1"
    /\ op[Main].args[2] = None
    /\ op[Main].args[3] = Some("client_secret_1")
    /\ PassedConfig.client_id = DefaultClientId
    /\ PassedConfig.client_secret = "client_secret_1"

====
